---- MODULE Spec2Model ----
(***************************************************************************)
(* A model of app.py, the Streamlit client of the property price           *)
(* prediction API: the form's widget state, the construction of            *)
(* property_input, the local missing-field gate, the POST, the             *)
(* interpretation of the response and the postcode lookup.                 *)
(*                                                                         *)
(* Strings that the program converts (labels, tokens) are sequences of     *)
(* one-character strings, so that replace/upper/title are computed         *)
(* character by character.  Dictionaries are sequences of <<key, value>>   *)
(* pairs in insertion order, as Python dicts are.                          *)
(***************************************************************************)
EXTENDS Integers, Sequences, FiniteSets, TLC

VARIABLES
    session_state,    \* the widgets' values Streamlit keeps between script runs
    pc,               \* where the script run is: "idle", "posting", "rendered"
    submit_button,    \* main's submit_button: whether this run is a submission
    property_input,   \* main's property_input dict (<<>> outside a run)
    posted,           \* the JSON bodies requests.post has put on the wire in this run
    response,         \* main's response (None until predict_price returns one)
    e,                \* the exception caught by main's except clause (None if none)
    summary,          \* main's summary dict (<<>> until create_property_summary runs)
    messages,         \* what the run has rendered so far, in order
    loads             \* how many times load_geodata has read the dataset file

vars == <<session_state, pc, submit_button, property_input, posted, response, e,
          summary, messages, loads>>

----------------------------------------------------------------------------
(* Python values.  Every value carries its type, so that `is None' and     *)
(* truthiness are decided as Python decides them.                          *)

None == [t |-> "None"]
Str(s) == [t |-> "str", s |-> s]
Num(n) == [t |-> "num", n |-> n]
Bool(b) == [t |-> "bool", b |-> b]
Dict(d) == [t |-> "dict", d |-> d]
List(l) == [t |-> "list", l |-> l]

IsNone(v) == v.t = "None"

\* bool(v): None, "", 0, False, {} and [] are falsy
Truthy(v) ==
    CASE v.t = "None" -> FALSE
      [] v.t = "str" -> v.s /= <<>>
      [] v.t = "num" -> v.n /= 0
      [] v.t = "bool" -> v.b
      [] v.t = "dict" -> v.d /= <<>>
      [] v.t = "list" -> v.l /= <<>>

\* dict access: d[k], and d[k] = v (replaces in place, or appends a new key)
HasKey(d, k) == \E i \in 1..Len(d) : d[i][1] = k
Get(d, k) == d[CHOOSE i \in 1..Len(d) : d[i][1] = k][2]
Set(d, k, v) ==
    IF HasKey(d, k)
    THEN [i \in 1..Len(d) |-> IF d[i][1] = k THEN <<k, v>> ELSE d[i]]
    ELSE Append(d, <<k, v>>)

\* the elements of a sequence
Range(s) == {s[i] : i \in 1..Len(s)}

----------------------------------------------------------------------------
(* str.replace (of one character), str.upper, str.title                    *)

Lower == <<"a","b","c","d","e","f","g","h","i","j","k","l","m","n","o","p","q","r","s","t","u","v","w","x","y","z">>
Upper == <<"A","B","C","D","E","F","G","H","I","J","K","L","M","N","O","P","Q","R","S","T","U","V","W","X","Y","Z">>

is_lower(c) == \E i \in 1..Len(Lower) : Lower[i] = c
is_upper(c) == \E i \in 1..Len(Upper) : Upper[i] = c
is_alpha(c) == is_lower(c) \/ is_upper(c)
upper_char(c) == IF is_lower(c) THEN Upper[CHOOSE i \in 1..Len(Lower) : Lower[i] = c] ELSE c
lower_char(c) == IF is_upper(c) THEN Lower[CHOOSE i \in 1..Len(Upper) : Upper[i] = c] ELSE c

replace_char(s, old, new) == [i \in 1..Len(s) |-> IF s[i] = old THEN new ELSE s[i]]
remove_char(s, old) == SelectSeq(s, LAMBDA c : c /= old)
str_upper(s) == [i \in 1..Len(s) |-> upper_char(s[i])]
\* title-case: a letter that follows a non-letter (or starts the string) is
\* upper-cased, every other letter lower-cased
str_title(s) ==
    [i \in 1..Len(s) |->
        IF i = 1 \/ ~is_alpha(s[i - 1]) THEN upper_char(s[i]) ELSE lower_char(s[i])]

format_for_display(text) ==
    IF ~Truthy(text) THEN text
    ELSE Str(str_title(replace_char(text.s, "_", " ")))

format_for_api(text) ==
    IF ~Truthy(text) THEN text
    ELSE Str(str_upper(replace_char(text.s, " ", "_")))

----------------------------------------------------------------------------
(* The vocabulary of main                                                  *)

\* list_apt (app.py 240-244), each label a sequence of characters
list_apt ==
    << <<"A","p","a","r","t","m","e","n","t">>,
       <<"F","l","a","t"," ","S","t","u","d","i","o">>,
       <<"D","u","p","l","e","x">>,
       <<"P","e","n","t","h","o","u","s","e">>,
       <<"G","r","o","u","n","d"," ","F","l","o","o","r">>,
       <<"A","p","a","r","t","m","e","n","t"," ","B","l","o","c","k">>,
       <<"K","o","t">>,
       <<"E","x","c","e","p","t","i","o","n","a","l"," ","P","r","o","p","e","r","t","y">>,
       <<"M","i","x","e","d"," ","U","s","e"," ","B","u","i","l","d","i","n","g">>,
       <<"T","r","i","p","l","e","x">>,
       <<"L","o","f","t">>,
       <<"S","e","r","v","i","c","e"," ","F","l","a","t">> >>

\* list_house (app.py 245-249)
list_house ==
    << <<"H","o","u","s","e">>,
       <<"V","i","l","l","a">>,
       <<"T","o","w","n"," ","H","o","u","s","e">>,
       <<"C","h","a","l","e","t">>,
       <<"M","a","n","o","r"," ","H","o","u","s","e">>,
       <<"M","a","n","s","i","o","n">>,
       <<"B","u","n","g","a","l","o","w">>,
       <<"C","o","u","n","t","r","y"," ","C","o","t","t","a","g","e">>,
       <<"O","t","h","e","r"," ","P","r","o","p","e","r","t","y">>,
       <<"C","a","s","t","l","e">>,
       <<"P","a","v","i","l","i","o","n">>,
       <<"E","x","c","e","p","t","i","o","n","a","l"," ","P","r","o","p","e","r","t","y">> >>

\* list_type (app.py 251)
list_type ==
    << <<"A","p","a","r","t","m","e","n","t">>,
       <<"H","o","u","s","e">> >>

\* the Province selectbox options (app.py 306-308)
province_options ==
    << <<"B","r","u","s","s","e","l","s">>,
       <<"L","u","x","e","m","b","o","u","r","g">>,
       <<"A","n","t","w","e","r","p">>,
       <<"F","l","e","m","i","s","h"," ","B","r","a","b","a","n","t">>,
       <<"E","a","s","t"," ","F","l","a","n","d","e","r","s">>,
       <<"W","e","s","t"," ","F","l","a","n","d","e","r","s">>,
       <<"L","i","è","g","e">>,
       <<"W","a","l","l","o","o","n"," ","B","r","a","b","a","n","t">>,
       <<"L","i","m","b","u","r","g">>,
       <<"N","a","m","u","r">>,
       <<"H","a","i","n","a","u","t">> >>

\* the EPC Score selectbox options
epc_options ==
    << <<"A","+">>, <<"A">>, <<"B">>, <<"C">>, <<"D">>, <<"E">>, <<"F">>, <<"G">> >>

\* boolean_fields: (session key, checkbox label)
boolean_fields ==
    << <<"hasAttic", "Attic">>,
       <<"hasGarden", "Garden">>,
       <<"hasAirConditioning", "Air Conditioning">>,
       <<"hasArmoredDoor", "Armored Door">>,
       <<"hasVisiophone", "Visiophone">>,
       <<"hasTerrace", "Terrace">>,
       <<"hasOffice", "Office">>,
       <<"hasSwimmingPool", "Swimming Pool">>,
       <<"hasFireplace", "Fireplace">>,
       <<"hasBasement", "Basement">>,
       <<"hasDressingRoom", "Dressing Room">>,
       <<"hasDiningRoom", "Dining Room">>,
       <<"hasLift", "Lift">>,
       <<"hasHeatPump", "Heat Pump">>,
       <<"hasPhotovoltaicPanels", "Photovoltaic Panels">>,
       <<"hasLivingRoom", "Living Room">> >>

BooleanKeys == {boolean_fields[i][1] : i \in 1..Len(boolean_fields)}

Apartment == list_type[1]
House == list_type[2]

----------------------------------------------------------------------------
(* The widgets.  st.selectbox returns one of its options or None; the      *)
(* value a keyed widget holds when its options change is either dropped    *)
(* or kept by Streamlit, and is returned only if it is among the options.  *)

selectbox(options, value) ==
    IF ~IsNone(value) /\ value.s \in Range(options) THEN value ELSE None

\* fault: the House branch copied from the Apartment branch, list and all
subtype_options_copied(property_type) ==
    IF property_type = Str(Apartment) \/ property_type = Str(House)
    THEN [i \in 1..Len(list_apt) |-> replace_char(list_apt[i], "_", " ")]
    ELSE <<>>

\* the options of the subtype selectbox, by st.session_state.get("property_type")
subtype_options(property_type) ==
    IF property_type = Str(Apartment)
    THEN [i \in 1..Len(list_apt) |-> replace_char(list_apt[i], "_", " ")]
    ELSE IF property_type = Str(House)
    THEN [i \in 1..Len(list_house) |-> replace_char(list_house[i], "_", " ")]
    ELSE <<>>

\* st.number_input(min_value=1000, max_value=9999), the sliders' ranges
postcode_min == 1000
postcode_max == 9999
bedrooms_max == 10
bathrooms_max == 5
toilets_max == 5

\* the widgets of the form, and the values the model lets the user give each
FormFields ==
    {"province", "postcode", "epc_score", "bedroomCount", "bathroomCount",
     "toiletCount", "habitableSurface", "terraceSurface", "gardenSurface"}

FormValues(field) ==
    CASE field = "province" ->
            {None} \cup {Str(province_options[i]) : i \in 1..Len(province_options)}
      [] field = "postcode" ->
            {None} \cup {Num(n) : n \in {postcode_min, 2000, postcode_max}}
      [] field = "epc_score" ->
            {None} \cup {Str(epc_options[i]) : i \in 1..Len(epc_options)}
      [] field = "bedroomCount" -> {Num(n) : n \in {0, 2, bedrooms_max}}
      [] field = "bathroomCount" -> {Num(n) : n \in {0, 1, bathrooms_max}}
      [] field = "toiletCount" -> {Num(n) : n \in {0, 1, toilets_max}}
      [] field = "habitableSurface" -> {Num(n) : n \in {0, 50}}
      [] field = "terraceSurface" -> {Num(n) : n \in {0, 12}}
      [] field = "gardenSurface" -> {Num(n) : n \in {0, 100}}

\* the part of those values the specification Spec explores
SampleValues(field) ==
    CASE field = "province" -> {None, Str(province_options[4])}
      [] field = "postcode" -> {None, Num(postcode_min), Num(postcode_max)}
      [] field = "epc_score" -> {None, Str(epc_options[1])}
      [] field = "bedroomCount" -> {Num(0), Num(2)}
      [] field = "habitableSurface" -> {Num(0), Num(50)}
      [] OTHER -> {}

SampleKeys == {"hasAttic"}

\* the widgets' values after the first script run: every selectbox and the
\* postcode empty (index=None, value=None), the other inputs at their defaults
InitialWidgets ==
    [k \in {"property_type", "subtype"} \cup FormFields \cup BooleanKeys |->
        CASE k = "bedroomCount" -> Num(2)
          [] k = "bathroomCount" -> Num(1)
          [] k = "toiletCount" -> Num(1)
          [] k = "habitableSurface" -> Num(50)
          [] k = "terraceSurface" -> Num(0)
          [] k = "gardenSurface" -> Num(0)
          [] k \in BooleanKeys -> Bool(FALSE)
          [] OTHER -> None]

----------------------------------------------------------------------------
(* main: the construction of property_input                                *)

property_type_display(ss) == selectbox(list_type, ss["property_type"])
subtype_display(ss) == selectbox(subtype_options(ss["property_type"]), ss["subtype"])

\* fault: only the checked boxes get a key (an unset flag is left out)
RECURSIVE fill_boolean_fields_checked_only(_, _, _)
fill_boolean_fields_checked_only(d, ss, i) ==
    IF i > Len(boolean_fields) THEN d
    ELSE LET field_key == boolean_fields[i][1]
             held == IF field_key \in DOMAIN ss THEN Truthy(ss[field_key]) ELSE FALSE
         IN  fill_boolean_fields_checked_only(
                 IF held THEN Set(d, field_key, Bool(TRUE)) ELSE d, ss, i + 1)

\* for field_key, _ in boolean_fields: property_input[field_key] = True / False
RECURSIVE fill_boolean_fields(_, _, _)
fill_boolean_fields(d, ss, i) ==
    IF i > Len(boolean_fields) THEN d
    ELSE LET field_key == boolean_fields[i][1]
             held == IF field_key \in DOMAIN ss THEN Truthy(ss[field_key]) ELSE FALSE
         IN  fill_boolean_fields(Set(d, field_key, Bool(held)), ss, i + 1)

build_property_input(ss) ==
    LET property_type == IF Truthy(property_type_display(ss))
                         THEN format_for_api(property_type_display(ss)) ELSE None
        subtype == IF Truthy(subtype_display(ss))
                   THEN format_for_api(subtype_display(ss)) ELSE None
        province == IF Truthy(ss["province"])
                    THEN Str(remove_char(ss["province"].s, " ")) ELSE None
        d == << <<"habitableSurface", ss["habitableSurface"]>>,
                <<"type", property_type>>,
                <<"subtype", subtype>>,
                <<"province", province>>,
                <<"postCode", ss["postcode"]>>,
                <<"epcScore", ss["epc_score"]>>,
                <<"bedroomCount", ss["bedroomCount"]>>,
                <<"bathroomCount", ss["bathroomCount"]>>,
                <<"toiletCount", ss["toiletCount"]>>,
                <<"terraceSurface", ss["terraceSurface"]>>,
                <<"gardenSurface", ss["gardenSurface"]>> >>
    IN  fill_boolean_fields(d, ss, 1)

\* selected_features: the labels of the checked boxes, in boolean_fields order
selected_features(ss) ==
    LET picked == SelectSeq(boolean_fields, LAMBDA f : Truthy(ss[f[1]]))
    IN  [i \in 1..Len(picked) |-> picked[i][2]]

----------------------------------------------------------------------------
(* check_missing_fields and predict_price's gate                           *)

\* fault: `if not v' in place of `if v is None' (0 and False count as missing)
missing_fields_falsy(input) ==
    LET absent == SelectSeq(input, LAMBDA kv : ~Truthy(kv[2]))
    IN  [i \in 1..Len(absent) |-> absent[i][1]]

\* missing = [k for k, v in input.items() if v is None]
missing_fields(input) ==
    LET absent == SelectSeq(input, LAMBDA kv : IsNone(kv[2]))
    IN  [i \in 1..Len(absent) |-> absent[i][1]]

\* fault: the `return False' after the errors is lost
check_missing_fields_no_return(input) == TRUE

check_missing_fields(input) == missing_fields(input) = <<>>

\* what check_missing_fields and predict_price render when the gate is shut
error_per_field(missing) ==
    [i \in 1..Len(missing) |-> [kind |-> "MissingField", field |-> missing[i]]]

missing_messages(input) ==
    error_per_field(missing_fields(input)) \o << [kind |-> "FillRequired"] >>

\* check_server_status: the GET has timeout=5 and its failure is caught, so it
\* always returns; main renders the banner, and a warning when not connected
status_banner(is_connected) ==
    IF is_connected THEN << [kind |-> "StatusGood"] >>
    ELSE << [kind |-> "StatusError"], [kind |-> "Unavailable"] >>

----------------------------------------------------------------------------
(* str(n), format_currency, create_property_summary                        *)

Digits == <<"0","1","2","3","4","5","6","7","8","9">>

\* str(n) for an integer n >= 0
RECURSIVE int_str(_)
int_str(n) == IF n < 10 THEN << Digits[n + 1] >>
              ELSE Append(int_str(n \div 10), Digits[(n % 10) + 1])

\* the "," option of the format: a comma before every group of three digits
group_thousands(digits) ==
    LET n == Len(digits)
        with_commas == [i \in 1..n |->
            IF i > 1 /\ (n - i + 1) % 3 = 0 THEN <<",", digits[i]>> ELSE << digits[i] >>]
        flatten[i \in 0..n] == IF i = 0 THEN <<>> ELSE flatten[i - 1] \o with_commas[i]
    IN  flatten[n]

\* f"EUR{amount:,.2f}"; an amount is held in cents
format_currency(amount) ==
    <<"€">> \o group_thousands(int_str(amount.n \div 100)) \o <<".">>
            \o << Digits[((amount.n % 100) \div 10) + 1], Digits[(amount.n % 10) + 1] >>

\* re.sub(r'(?<=[a-z])(?=[A-Z])', ' ', s): a space between a lower-case letter
\* and the upper-case letter after it
split_camel(s) ==
    LET n == Len(s)
        piece(i) == IF i < n /\ is_lower(s[i]) /\ is_upper(s[i + 1])
                    THEN <<s[i], " ">> ELSE << s[i] >>
        flatten[i \in 0..n] == IF i = 0 THEN <<>> ELSE flatten[i - 1] \o piece(i)
    IN  flatten[n]

SurfaceNames ==
    << <<"habitableSurface", "Habitable">>, <<"terraceSurface", "Terrace">>,
       <<"gardenSurface", "Garden">> >>
RoomNames ==
    << <<"bedroomCount", "bedrooms">>, <<"bathroomCount", "bathrooms">>,
       <<"toiletCount", "toilets">> >>

\* the f-strings of the surfaces and rooms lists: (number, unit) pairs
positive_parts(property_data, names) ==
    LET kept == SelectSeq(names, LAMBDA nm : Get(property_data, nm[1]).n > 0)
    IN  [i \in 1..Len(kept) |-> <<Get(property_data, kept[i][1]), kept[i][2]>>]

\* lines 177-179: type and subtype of the dict that was passed in are
\* overwritten with their display form
display_typed(property_data, typed) ==
    IF typed
    THEN Set(Set(property_data, "type", format_for_display(Get(property_data, "type"))),
             "subtype", format_for_display(Get(property_data, "subtype")))
    ELSE property_data

\* the entries of summary, in the order they are inserted
summary_entries(pd, typed) ==
    (IF typed
     THEN << <<"Property Type",
               Str(Get(pd, "type").s \o <<" ", "-", " ">> \o Get(pd, "subtype").s)>> >>
     ELSE <<>>)
    \o (IF Truthy(Get(pd, "province"))
        THEN << <<"Province", Str(split_camel(Get(pd, "province").s))>> >> ELSE <<>>)
    \o (IF Truthy(Get(pd, "postCode"))
        THEN << <<"Postcode", Str(int_str(Get(pd, "postCode").n))>> >> ELSE <<>>)
    \o (IF Truthy(Get(pd, "epcScore"))
        THEN << <<"EPC Score", Get(pd, "epcScore")>> >> ELSE <<>>)
    \o (IF positive_parts(pd, SurfaceNames) /= <<>>
        THEN << <<"Surface Areas", positive_parts(pd, SurfaceNames)>> >> ELSE <<>>)
    \o (IF positive_parts(pd, RoomNames) /= <<>>
        THEN << <<"Rooms", positive_parts(pd, RoomNames)>> >> ELSE <<>>)

summary_result(pd, typed) == [summary |-> summary_entries(pd, typed), property_data |-> pd]

\* create_property_summary changes the dict it was given: the result is the
\* summary and that dict
create_property_summary(property_data) ==
    summary_result(
        display_typed(property_data,
                      Truthy(Get(property_data, "type"))
                      /\ Truthy(Get(property_data, "subtype"))),
        Truthy(Get(property_data, "type")) /\ Truthy(Get(property_data, "subtype")))

----------------------------------------------------------------------------
(* load_geodata and get_location                                           *)

\* the rows of data/georef-belgium-postal-codes.csv the model holds: the
\* "Post code" column and the two halves of "Geo Point"
geo_rows ==
    << [post_code |-> 1000, lat |-> 10, lon |-> 4],
       [post_code |-> 1000, lat |-> 20, lon |-> 5],
       [post_code |-> 1000, lat |-> 30, lon |-> 6],
       [post_code |-> 2000, lat |-> 51, lon |-> 4] >>

RECURSIVE seq_sum(_)
seq_sum(s) == IF s = <<>> THEN 0 ELSE Head(s) + seq_sum(Tail(s))

\* geo_df.groupby("postCode")[["lat", "lon"]].mean(), indexed by str(Post code)
load_geodata ==
    [postCode \in {int_str(geo_rows[i].post_code) : i \in 1..Len(geo_rows)} |->
        LET rows == SelectSeq(geo_rows, LAMBDA r : int_str(r.post_code) = postCode)
        IN  [lat |-> seq_sum([i \in 1..Len(rows) |-> rows[i].lat]) \div Len(rows),
             lon |-> seq_sum([i \in 1..Len(rows) |-> rows[i].lon]) \div Len(rows)]]

\* get_location reads the dataset on every call; a failure of the read is
\* caught and rendered.  file_ok: whether pd.read_csv succeeds
get_location(postcode, file_ok) ==
    IF ~file_ok
    THEN [lat |-> None, lon |-> None, messages |-> << [kind |-> "GeoError"] >>]
    ELSE LET geo_df == load_geodata
             key == int_str(postcode.n)
         IN  IF key \in DOMAIN geo_df
             THEN [lat |-> Num(geo_df[key].lat), lon |-> Num(geo_df[key].lon),
                   messages |-> <<>>]
             ELSE [lat |-> None, lon |-> None,
                   messages |-> << [kind |-> "PostcodeNotFound", postcode |-> key] >>]

----------------------------------------------------------------------------
(* The responses of the prediction API, and main's reading of them         *)

MaxDetail == 2
MaxLoads == 2

HTTP_OK == 200
HTTP_UNPROCESSABLE == 422
HTTP_SERVER_ERROR == 500

\* a requests.Response: .status_code, .text, and .json(), which raises when
\* the body is not JSON
json_response(status_code, d, text) ==
    [t |-> "Response", status_code |-> status_code, is_json |-> TRUE,
     json |-> Dict(d), text |-> text]
text_response(status_code, text) ==
    [t |-> "Response", status_code |-> status_code, is_json |-> FALSE,
     json |-> None, text |-> text]

\* entries of a 422 body's detail list; a message is held as its pieces, so
\* that the replacement of "Value error," is computed
SampleViolations ==
    { Dict(<< <<"loc", List(<<"body", "data", "province">>)>>,
              <<"msg", Str(<<"Value error,", " invalid province">>)>> >>),
      Dict(<< <<"msg", Str(<<"Value error,", " postCode must be 4 digits">>)>> >>) }

SampleDetails == UNION {[1..n -> SampleViolations] : n \in 0..MaxDetail}

prediction_body == << <<"data", Dict(<< <<"prediction", Num(34500050)>> >>)>> >>

SampleResponses ==
    { json_response(HTTP_OK, prediction_body, "{data: {prediction: 345000.5}}"),
      json_response(HTTP_OK, << <<"data", Dict(<<>>)>> >>, "{data: {}}"),
      json_response(HTTP_OK, <<>>, "{}"),
      text_response(HTTP_OK, "<html>"),
      json_response(201, prediction_body, "{data: {prediction: 345000.5}}"),
      json_response(404, << <<"detail", Str(<<"Not Found">>)>> >>, "{detail: Not Found}"),
      json_response(HTTP_UNPROCESSABLE, <<>>, "{}"),
      text_response(HTTP_UNPROCESSABLE, "<html>"),
      json_response(HTTP_SERVER_ERROR, << <<"error", Str(<<"model not loaded">>)>> >>,
                    "{error: model not loaded}"),
      json_response(HTTP_SERVER_ERROR, <<>>, "{}"),
      text_response(HTTP_SERVER_ERROR, "Internal Server Error"),
      text_response(503, "Service Unavailable") }
    \cup { json_response(HTTP_UNPROCESSABLE, << <<"detail", List(d)>> >>, "{detail: [...]}") :
             d \in SampleDetails }

\* dict.get(k, default)
get_default(d, k, default) == IF HasKey(d, k) THEN Get(d, k) ELSE default

\* the st.error of one entry of detail: "<field> : <msg>" when loc has more
\* than two segments, else msg with "Value error," replaced
violation_message(error) ==
    LET loc == get_default(error.d, "loc", List(<<>>))
        msg == get_default(error.d, "msg", Str(<<"Unknown error">>))
    IN  IF Len(loc.l) > 2
        THEN [kind |-> "ValidationError", field |-> loc.l[3], msg |-> msg.s]
        ELSE [kind |-> "ValidationError", field |-> "",
              msg |-> [i \in 1..Len(msg.s) |->
                          IF msg.s[i] = "Value error," THEN "(x) " ELSE msg.s[i]]]

\* the branch for status 422: only detail[0] is read
validation_messages(detail) ==
    IF Truthy(detail)
    THEN << violation_message(detail.l[1]) >>
    ELSE << [kind |-> "ValidationError", field |-> "", msg |-> <<"Unknown error occurred">>] >>

\* fault: any 2xx status taken for the success branch
is_success_status_2xx(status_code) == status_code \div 100 = 2

\* response.status_code == 200
is_success_status(status_code) == status_code = HTTP_OK

\* an exception inside main's try block: the except clause renders str(e)
raised(cause, data, summ) ==
    [messages |-> << [kind |-> "Unexpected", cause |-> cause] >>,
     e |-> Str(<<cause>>), property_input |-> data, summary |-> summ, loads |-> 0]

rendered(msgs, data, summ, n) ==
    [messages |-> msgs, e |-> None, property_input |-> data, summary |-> summ, loads |-> n]

\* the cards of the summary, the feature tags and the Location column
summary_cards(summ) ==
    [i \in 1..Len(summ) |-> [kind |-> "InfoCard", key |-> summ[i][1], value |-> summ[i][2]]]

feature_tags(labels) ==
    IF Len(labels) > 0 THEN << [kind |-> "Features", labels |-> labels] >> ELSE <<>>

location_column(located) ==
    located.messages
    \o (IF Truthy(located.lat) /\ Truthy(located.lon)
        THEN << [kind |-> "Map", lat |-> located.lat, lon |-> located.lon] >>
        ELSE << [kind |-> "NoMap"] >>)

\* the 200 branch after response.json() and response["data"] succeeded:
\* the summary is created, then the price card is rendered
success_render(prediction, cps, ss, file_ok) ==
    IF prediction.t /= "dict" \/ ~HasKey(prediction.d, "prediction")
    THEN raised("KeyError", cps.property_data, cps.summary)
    ELSE rendered(<< [kind |-> "Success",
                      text |-> format_currency(Get(prediction.d, "prediction"))] >>
                  \o summary_cards(cps.summary)
                  \o feature_tags(selected_features(ss))
                  \o (IF Truthy(ss["postcode"])
                      THEN location_column(get_location(ss["postcode"], file_ok))
                      ELSE <<>>),
                  cps.property_data, cps.summary,
                  IF Truthy(ss["postcode"]) THEN 1 ELSE 0)

success_branch(prediction, data, ss, file_ok) ==
    success_render(prediction, create_property_summary(data), ss, file_ok)

\* main, from `if response is None' to the except clause
interpret(r, data, ss, file_ok) ==
    IF is_success_status(r.status_code)
    THEN IF ~r.is_json THEN raised("JSONDecodeError", data, <<>>)
         ELSE IF ~HasKey(r.json.d, "data") THEN raised("KeyError", data, <<>>)
         ELSE success_branch(Get(r.json.d, "data"), data, ss, file_ok)
    ELSE IF r.status_code = HTTP_UNPROCESSABLE
    THEN IF ~r.is_json THEN raised("JSONDecodeError", data, <<>>)
         ELSE rendered(validation_messages(get_default(r.json.d, "detail", List(<<>>))),
                       data, <<>>, 0)
    ELSE IF r.status_code = HTTP_SERVER_ERROR
    THEN IF ~r.is_json THEN raised("JSONDecodeError", data, <<>>)
         ELSE IF ~HasKey(r.json.d, "error") THEN raised("KeyError", data, <<>>)
         ELSE rendered(<< [kind |-> "ServerError", form |-> "error",
                           error |-> Get(r.json.d, "error")] >>, data, <<>>, 0)
    ELSE rendered(<< [kind |-> "ServerError", form |-> "API Error",
                      status_code |-> r.status_code, text |-> r.text] >>,
                  data, <<>>, 0)

----------------------------------------------------------------------------
(* The state after the first script run, and the script runs               *)

Init ==
    /\ session_state = InitialWidgets
    /\ pc = "idle"
    /\ submit_button = FALSE
    /\ property_input = <<>>
    /\ posted = <<>>
    /\ response = None
    /\ e = None
    /\ summary = <<>>
    /\ messages = <<>>
    /\ loads = 0

\* Streamlit re-renders the subtype selectbox with the options of the type in
\* session_state; the widget then holds what it returned
rendered_widgets(ss) == [ss EXCEPT !["subtype"] = subtype_display(ss)]

\* a run of main with submit_button False: the page and property_input are
\* built, and nothing is submitted
Rerun(ss) ==
    /\ session_state' = rendered_widgets(ss)
    /\ \E is_connected \in BOOLEAN : messages' = status_banner(is_connected)
    /\ property_input' = build_property_input(rendered_widgets(ss))
    /\ pc' = "rendered"
    /\ submit_button' = FALSE
    /\ posted' = <<>>
    /\ response' = None
    /\ e' = None
    /\ summary' = <<>>
    /\ UNCHANGED loads

\* the user picks (or clears) the property type; the selectbox is outside the
\* form, so the script reruns at once
SelectType(t) ==
    /\ pc = "idle"
    /\ t /= session_state["property_type"]
    /\ \E kept \in BOOLEAN :
          Rerun([session_state EXCEPT !["property_type"] = t,
                                      !["subtype"] = IF kept THEN @ ELSE None])

\* the user picks (or clears) a subtype among the options on the page
SelectSubtype(s) ==
    /\ pc = "idle"
    /\ s /= session_state["subtype"]
    /\ \/ s = None
       \/ /\ ~IsNone(s)
          /\ s.s \in Range(subtype_options(session_state["property_type"]))
    /\ Rerun([session_state EXCEPT !["subtype"] = s])

\* the user edits a widget of the form: no rerun until the form is submitted
FormEdit(field, value) ==
    /\ pc = "idle"
    /\ value \in FormValues(field)
    /\ value /= session_state[field]
    /\ session_state' = [session_state EXCEPT ![field] = value]
    /\ UNCHANGED <<pc, submit_button, property_input, posted, response, e, summary,
                   messages, loads>>

ToggleCheckbox(field_key) ==
    /\ pc = "idle"
    /\ field_key \in BooleanKeys
    /\ session_state' = [session_state EXCEPT ![field_key] = Bool(~@.b)]
    /\ UNCHANGED <<pc, submit_button, property_input, posted, response, e, summary,
                   messages, loads>>

\* the user presses Predict Price: main runs with submit_button True up to
\* predict_price, which either renders the missing fields and returns None,
\* or sends the POST and waits for the response
predict_price(data, passes) ==
    /\ property_input' = data
    /\ \E is_connected \in BOOLEAN :
          messages' = status_banner(is_connected)
                      \o (IF passes THEN <<>> ELSE missing_messages(data))
    /\ posted' = IF passes THEN << [data |-> data] >> ELSE <<>>
    /\ pc' = IF passes THEN "posting" ELSE "rendered"

Submit ==
    /\ pc = "idle"
    /\ submit_button' = TRUE
    /\ predict_price(build_property_input(session_state),
                     check_missing_fields(build_property_input(session_state)))
    /\ response' = None
    /\ e' = None
    /\ summary' = <<>>
    /\ UNCHANGED <<session_state, loads>>

\* fault: main's try has no except clause for the exception of requests.post,
\* which leaves the run with nothing rendered
TransportFailure_uncaught(cause) ==
    /\ pc = "posting"
    /\ e' = Str(<<cause>>)
    /\ pc' = "crashed"
    /\ UNCHANGED <<session_state, submit_button, property_input, posted, response,
                   summary, messages, loads>>

\* requests.post raises (connection refused, name resolution, reset):
\* predict_price lets the exception through and main's except clause renders it
TransportFailure(cause) ==
    /\ pc = "posting"
    /\ e' = Str(<<cause>>)
    /\ messages' = Append(messages, [kind |-> "Unexpected", cause |-> cause])
    /\ pc' = "rendered"
    /\ UNCHANGED <<session_state, submit_button, property_input, posted, response,
                   summary, loads>>

TransportCauses == {"ConnectionRefused", "NameResolutionFailed", "ConnectionReset"}

\* what main's try block leaves behind; a run opens the dataset at most once,
\* and the model follows the process for MaxLoads reads of it
finish_run(out) ==
    /\ loads + out.loads <= MaxLoads
    /\ messages' = messages \o out.messages
    /\ e' = out.e
    /\ property_input' = out.property_input
    /\ summary' = out.summary
    /\ loads' = loads + out.loads

\* the response arrives: main reads it and renders the outcome.  line 439
\* rebinds the name response to the decoded body; the model keeps the Response
Respond(r) ==
    /\ pc = "posting"
    /\ response' = r
    /\ \E file_ok \in BOOLEAN :
          finish_run(interpret(r, property_input, session_state, file_ok))
    /\ pc' = "rendered"
    /\ UNCHANGED <<session_state, submit_button, posted>>

\* the script run ends: its locals are gone, the page waits for the user
EndRun ==
    /\ pc = "rendered"
    /\ pc' = "idle"
    /\ submit_button' = FALSE
    /\ property_input' = <<>>
    /\ posted' = <<>>
    /\ response' = None
    /\ e' = None
    /\ summary' = <<>>
    /\ messages' = <<>>
    /\ UNCHANGED <<session_state, loads>>

Next ==
    \/ \E t \in {None} \cup {Str(list_type[i]) : i \in 1..Len(list_type)} : SelectType(t)
    \/ \E s \in {None} \cup {Str(l) : l \in Range(list_apt) \cup Range(list_house)} :
          SelectSubtype(s)
    \/ \E field \in FormFields : \E value \in SampleValues(field) : FormEdit(field, value)
    \/ \E field_key \in SampleKeys : ToggleCheckbox(field_key)
    \/ Submit
    \/ \E r \in SampleResponses : Respond(r)
    \/ \E cause \in TransportCauses : TransportFailure(cause)
    \/ EndRun

Spec == Init /\ [][Next]_vars

----------------------------------------------------------------------------
(* Further specifications                                                  *)

\* the form filled in and valid, as Spec reaches it by edits
FilledWidgets ==
    [InitialWidgets EXCEPT !["property_type"] = Str(Apartment),
                           !["subtype"] = Str(list_apt[2]),
                           !["province"] = Str(province_options[4]),
                           !["postcode"] = Num(postcode_min),
                           !["epc_score"] = Str(epc_options[1])]

InitFlags ==
    /\ session_state = FilledWidgets
    /\ pc = "idle"
    /\ submit_button = FALSE
    /\ property_input = <<>>
    /\ posted = <<>>
    /\ response = None
    /\ e = None
    /\ summary = <<>>
    /\ messages = <<>>
    /\ loads = 0

NextFlags ==
    \/ \E field_key \in BooleanKeys : ToggleCheckbox(field_key)
    \/ Submit
    \/ TransportFailure("ConnectionRefused")
    \/ EndRun

\* every subset of the sixteen checkboxes, submitted to a server that is down
SpecFlags == InitFlags /\ [][NextFlags]_vars

\* the script's own steps are taken; the network owes the client nothing
LiveSpec == Spec /\ WF_vars(EndRun)

----------------------------------------------------------------------------
(* The claims                                                              *)

HasAbsentField(d) == \E i \in 1..Len(d) : IsNone(d[i][2])

\* C1: a request with an absent (None) field is never POSTed: in a run whose
\* property_input has a None value nothing has been put on the wire and the
\* run is not waiting for a response, and every body on the wire has no None
C1_GateBlocksPost ==
    /\ (property_input /= <<>> /\ HasAbsentField(property_input))
          => (posted = <<>> /\ pc /= "posting" /\ IsNone(response))
    /\ \A i \in 1..Len(posted) : ~HasAbsentField(posted[i].data)

C1_Witness ==
    /\ submit_button /\ pc = "rendered"
    /\ HasAbsentField(property_input)
    /\ posted = <<>>
    /\ \E i \in 1..Len(messages) : messages[i].kind = "FillRequired"

MandatoryFields ==
    <<"habitableSurface", "type", "subtype", "province", "postCode", "epcScore",
      "bedroomCount", "bathroomCount", "toiletCount">>

ReportedMissing ==
    LET errors == SelectSeq(messages, LAMBDA m : m.kind = "MissingField")
    IN  [i \in 1..Len(errors) |-> errors[i].field]

\* C2: in a submission the fields reported missing are exactly the absent
\* ones among the nine mandatory fields, in the fixed field order; none is
\* reported when all nine are present, and a zero is not reported
C2_MissingExactlyAbsent ==
    submit_button =>
        ReportedMissing = SelectSeq(MandatoryFields,
                                    LAMBDA k : IsNone(Get(property_input, k)))

C2_Witness ==
    /\ submit_button
    /\ ReportedMissing = <<"type", "subtype", "postCode">>
    /\ Get(property_input, "bedroomCount") = Num(0)
    /\ Get(property_input, "habitableSurface") = Num(0)

OutcomeKinds == {"Success", "ValidationError", "ServerError", "Unexpected"}

Outcomes == SelectSeq(messages, LAMBDA m : m.kind \in OutcomeKinds)

HasNumericPrediction(r) ==
    /\ r.is_json
    /\ HasKey(r.json.d, "data")
    /\ Get(r.json.d, "data").t = "dict"
    /\ HasKey(Get(r.json.d, "data").d, "prediction")
    /\ Get(Get(r.json.d, "data").d, "prediction").t = "num"

HasErrorMessage(r) == r.is_json /\ HasKey(r.json.d, "error")

CarriesStatusAndBody(m, r) ==
    /\ m.kind = "ServerError"
    /\ m.form = "API Error"
    /\ m.status_code = r.status_code
    /\ m.text = r.text

C4_OnePerViolation ==
    (/\ pc = "rendered" /\ ~IsNone(response)
     /\ response.status_code = 422 /\ response.is_json
     /\ HasKey(response.json.d, "detail")
     /\ Len(Get(response.json.d, "detail").l) >= 1)
    => Outcomes = [i \in 1..Len(Get(response.json.d, "detail").l) |->
                      violation_message(Get(response.json.d, "detail").l[i])]

IsTransportFailure == ~IsNone(e) /\ e.s[1] \in TransportCauses

\* C5: a transport failure of the POST is never unhandled: the run ends
\* rendered with exactly one error message, which carries the cause, and no
\* success card; the run can end and the page then takes a new submission
C5_TransportFailureReported ==
    /\ pc \in {"idle", "posting", "rendered"}
    /\ IsTransportFailure =>
          /\ pc = "rendered"
          /\ Len(Outcomes) = 1
          /\ Outcomes[1] = [kind |-> "Unexpected", cause |-> e.s[1]]
          /\ summary = <<>>
          /\ ENABLED EndRun

C5_Witness ==
    /\ IsTransportFailure /\ e.s[1] = "ConnectionRefused"
    /\ pc = "rendered"
    /\ loads = 1

\* C6: every submission that has sent its POST ends with an outcome
C6_PostTerminates == (pc = "posting") ~> (pc = "rendered")

\* C7: the dataset is read at most once in the life of the process
C7_LoadedAtMostOnce == loads <= 1

FlagsOf(d, ss) ==
    \A field_key \in BooleanKeys :
        /\ HasKey(d, field_key)
        /\ Get(d, field_key).t = "bool"
        /\ Get(d, field_key).b = Truthy(ss[field_key])

\* C8: in the request handed to predict_price, and in the body on the wire,
\* each of the sixteen feature keys is present and is True or False, True
\* exactly when its checkbox is set
C8_FlagsPresent ==
    /\ Cardinality(BooleanKeys) = 16
    /\ submit_button => FlagsOf(property_input, session_state)
    /\ \A i \in 1..Len(posted) : FlagsOf(posted[i].data, session_state)

C8_Witness ==
    /\ pc = "posting"
    /\ Cardinality({k \in BooleanKeys : Get(posted[1].data, k) = Bool(TRUE)}) = 7
    /\ Get(posted[1].data, "hasAttic") = Bool(FALSE)
    /\ Get(posted[1].data, "hasLivingRoom") = Bool(TRUE)

\* C9: once a request has been submitted no later step changes a field of
\* property_input: it stays what was put on the wire, type and subtype included
C9_Immutable ==
    (posted /= <<>> /\ property_input /= <<>>) => property_input = posted[1].data

APARTMENT == <<"A","P","A","R","T","M","E","N","T">>
HOUSE == <<"H","O","U","S","E">>
EXCEPTIONAL_PROPERTY ==
    <<"E","X","C","E","P","T","I","O","N","A","L","_","P","R","O","P","E","R","T","Y">>

TokensOf(labels) == {format_for_api(Str(labels[i])).s : i \in 1..Len(labels)}
ApartmentTokens == TokensOf(list_apt)
HouseTokens == TokensOf(list_house)

SubtypeOfType(d, ss) ==
    LET type == Get(d, "type")
        subtype == Get(d, "subtype")
    IN  /\ type = (IF IsNone(ss["property_type"]) THEN None
                   ELSE IF ss["property_type"] = Str(Apartment) THEN Str(APARTMENT)
                   ELSE Str(HOUSE))
        /\ IsNone(type) => IsNone(subtype)
        /\ type = Str(APARTMENT) => (IsNone(subtype) \/ subtype.s \in ApartmentTokens)
        /\ type = Str(HOUSE) => (IsNone(subtype) \/ subtype.s \in HouseTokens)

\* C10: in every request as built and as put on the wire, after any
\* selections of type and subtype, subtype is absent or the token of a label
\* in the list of the selected type, and absent when type is;
\* EXCEPTIONAL_PROPERTY is a token of both lists
C10_SubtypeOfType ==
    /\ (property_input /= <<>> /\ summary = <<>>)
          => SubtypeOfType(property_input, session_state)
    /\ \A i \in 1..Len(posted) : SubtypeOfType(posted[i].data, session_state)
    /\ EXCEPTIONAL_PROPERTY \in ApartmentTokens \cap HouseTokens

C10_Witness ==
    /\ pc = "posting"
    /\ Get(posted[1].data, "type") = Str(HOUSE)
    /\ Get(posted[1].data, "subtype") = Str(EXCEPTIONAL_PROPERTY)

====
